---- MODULE Spec2Model ----
(***************************************************************************)
(* State-machine model of the eden-js user bundle: the user model          *)
(* (authenticate, name, sanitise) and the user controller (register,       *)
(* login, logout, refresh, listen, deafen).                                *)
(*                                                                         *)
(* Every async handler is split at its awaits: one action per run of       *)
(* synchronous code between two suspension points.  A session has at most  *)
(* one HTTP request in flight; requests of different sessions interleave.  *)
(***************************************************************************)
EXTENDS Integers, Sequences, FiniteSets, Bags, TLC

VARIABLES users, acls, sessUser, req, log, audit, logins, out, registered,
          joined, listeners, calls, connected, hist,
          cred, boot, deleted, issued, used, client

vars == <<users, acls, sessUser, req, log, audit, logins, out, registered,
          joined, listeners, calls, connected, hist,
          cred, boot, deleted, issued, used, client>>

authVars == <<users, acls, sessUser, req, log, audit, logins, out, registered, cred>>
listenVars == <<joined, listeners, calls, connected, hist>>
moreVars == <<boot, deleted, issued, used, client>>

(***************************************************************************)
(* Bounds of the model.                                                    *)
(***************************************************************************)
MaxUsers == 2
MaxAudit == 3
RaceAudit == 4
MaxCalls == 2
MaxTokens == 1
MaxRuns == 3
MaxDeleted == 1

Sessions == {1, 2}

(***************************************************************************)
(* Strings are sequences of one-character strings.                         *)
(***************************************************************************)
EmailA == <<"a", ".", "b", "@", "c">>
EmailAUp == <<"A", ".", "B", "@", "C">>
EmailX == <<"a", "x", "b", "@", "c">>
EmailPad == <<" ", "a", "@", "b", " ">>
Emails == {EmailA, EmailAUp, EmailX, EmailPad}

Pw1 == <<"s", "e", "c", "r", "t">>
Pw2 == <<"S", "e", "c", "r", "t">>
PwPad == <<"s", "e", "c", " ", " ">>
Passwords == {Pw1, Pw2, PwPad}

\* the confirmations sent with a password: the same, or another one
Confirmations(p) == {p, IF p = Pw1 THEN Pw2 ELSE Pw1}

\* the passwords sent to log in
LoginPasswords == {Pw1, Pw2}

\* config.get('secret'), config.get('acl.default'), config.get('acl.admin'),
\* config.get('user.fields')
Secret == <<"k">>
AclDefault == {"member"}
AclAdmin == {"admin"}

\* the entries of acl.default followed by those of acl.admin, as _acl
\* collects them; an entry is { name, value }
AclList == <<"member", "admin">>
AclEntry(n) == [name |-> n, value |-> <<n>>]

\* new Acl(entry), saved: a record of the acl collection
AclRecord(id, n) == [id |-> id, name |-> n, value |-> AclEntry(n).value]

\* the names that have a record
AclNames == {r.name : r \in acls}

\* the acl collection once _acl has run alone on an empty collection
AclBooted == {AclRecord(i, AclList[i]) : i \in 1..Len(AclList)}
UserFields == {"email", "username"}

MinLength == 5

NoId == 0
NoUser == [id |-> NoId]
NoInfo == [kind |-> "none"]

\* String.prototype.trim
RECURSIVE TrimLeft(_)
TrimLeft(s) ==
  IF s # <<>> /\ Head(s) = " " THEN TrimLeft(Tail(s)) ELSE s

RECURSIVE TrimRight(_)
TrimRight(s) ==
  IF s # <<>> /\ s[Len(s)] = " " THEN TrimRight(SubSeq(s, 1, Len(s) - 1)) ELSE s

Trim(s) == TrimRight(TrimLeft(s))

\* case folding of the 'i' flag
Fold(c) ==
  CASE c = "A" -> "a"
    [] c = "B" -> "b"
    [] c = "C" -> "c"
    [] c = "S" -> "s"
    [] OTHER -> c

RegexSpecial == {".", "\\", "^", "$", "*", "+", "?", "(", ")", "[", "]", "{", "}", "|"}

\* a query built without escaping the email
escapeRegexNot(s) == s

\* escape-string-regexp: a backslash before every special character
RECURSIVE escapeRegex(_)
escapeRegex(s) ==
  IF s = <<>> THEN <<>>
  ELSE IF Head(s) \in RegexSpecial
       THEN <<"\\", Head(s)>> \o escapeRegex(Tail(s))
       ELSE <<Head(s)>> \o escapeRegex(Tail(s))

\* the body of a regular expression as a sequence of items: an escaped
\* character or an ordinary one is a literal, a bare dot matches anything
RECURSIVE RegexItems(_)
RegexItems(p) ==
  IF p = <<>> THEN <<>>
  ELSE IF Head(p) = "\\" /\ Len(p) >= 2
       THEN <<[any |-> FALSE, ch |-> p[2]]>> \o RegexItems(SubSeq(p, 3, Len(p)))
       ELSE IF Head(p) = "."
            THEN <<[any |-> TRUE, ch |-> "."]>> \o RegexItems(Tail(p))
            ELSE <<[any |-> FALSE, ch |-> Head(p)]>> \o RegexItems(Tail(p))

\* new RegExp(['^', body, '$'].join(''), 'i').test(str)
RegexTest(body, str) ==
  LET items == RegexItems(body) IN
    /\ Len(items) = Len(str)
    /\ \A i \in 1..Len(str) : items[i].any \/ Fold(items[i].ch) = Fold(str[i])

\* the users a case-insensitive exact-match query on email selects
EmailMatches(us, email) ==
  {u \in us : RegexTest(escapeRegex(email), u.email)}

\* crypto.createHmac('sha256', secret).update(password).digest('hex'): a keyed
\* digest, taken to be free of collisions; the digest of a string is never
\* the string itself
Hmac(key, msg) == <<"hmac">> \o key \o <<":">> \o msg

\* String.prototype.toLowerCase
Lower(s) == [i \in 1..Len(s) |-> Fold(s[i])]

\* crypto.randomBytes(12).toString('hex').slice(0, 24): the n-th token drawn;
\* no two draws give the same token
Token(n) == <<"k", <<"0", "1", "2", "3", "4", "5", "6", "7", "8", "9">>[n + 1]>>

\* a token that was never issued
Bogus == <<"k", "x">>

\* ObjectId.toString()
IdString(n) == <<"#", <<"0", "1", "2", "3", "4", "5", "6", "7", "8", "9">>[n + 1]>>

\* Model.get(field); an unset field reads as the empty string
Get(u, f) == IF f \in DOMAIN u THEN u[f] ELSE <<>>

(***************************************************************************)
(* The user model.                                                         *)
(***************************************************************************)

\* User.authenticate
authenticate(u, password) ==
  LET hash == Get(u, "hash")
      check == Hmac(Secret, password)
  IN IF check # hash
       THEN [ok |-> FALSE, info |-> "Incorrect password"]
       ELSE [ok |-> TRUE, info |-> ""]

\* User.name
name(u) ==
  LET n == IF Get(u, "name") # <<>>
             THEN Get(u, "name")
             ELSE Get(u, "first") \o <<" ">> \o Get(u, "last")
  IN Trim(IF Len(Trim(n)) = 0
            THEN (IF Get(u, "username") # <<>> THEN Get(u, "username") ELSE Get(u, "email"))
            ELSE n)

SanitisedBase == {"id", "_id", "name", "created_at", "updated_at"}

\* the whole user instead of its projection
sanitiseNot(u) == u

\* User.sanitise
sanitise(u) ==
  [f \in SanitisedBase \cup UserFields |->
     IF f \in {"id", "_id"} THEN (IF u.id # NoId THEN IdString(u.id) ELSE <<>>)
     ELSE IF f = "name" THEN name(u)
     ELSE Get(u, f)]

(***************************************************************************)
(* The controller: requests.                                               *)
(*   req[s]   the request of session s in flight: its handler (kind), the  *)
(*            position in it (pc), req.body, the handler's locals          *)
(*   log[s]   what that request has done so far, in order                  *)
(*   audit[s] the Login record whose save() the request started and that   *)
(*            is not yet written                                           *)
(***************************************************************************)
\* (wasReg, expect and reuse record what held when the request began: the
\* pair sent was registered; the password sent is the new or the old one of
\* a completed reset; the token sent had completed a reset before.  alone
\* holds from a registration's User.count until a user is saved.)
IdleReq ==
  [kind |-> "none", pc |-> "idle", email |-> <<>>, password |-> <<>>,
   passwordb |-> <<>>, token |-> <<>>, user |-> NoUser, info |-> NoInfo,
   error |-> FALSE, prevented |-> FALSE, wasReg |-> FALSE, alone |-> FALSE,
   expect |-> "none", reuse |-> FALSE, outcome |-> ""]

NoAudit == [pending |-> FALSE]

Entry(ev, id, s) == [ev |-> ev, user |-> id, bound |-> sessUser[s]]

InFlight(kind) == {s \in Sessions : req[s].kind = kind /\ req[s].pc # "done"}

\* passport.deserializeUser: User.findById(id)
deserialise(id) ==
  IF \E u \in users : u.id = id THEN CHOOSE u \in users : u.id = id ELSE NoUser

\* the token of a mutant serialiser: the email instead of the id
serializeUserEmail(u) == u.email

\* passport.serializeUser: the token of a session is the id as a string
serializeUser(u) == IdString(u.id)

\* the id a token denotes; a token that is no id string denotes none
ParseId(t) ==
  IF \E n \in 0..9 : IdString(n) = t
    THEN CHOOSE n \in 0..9 : IdString(n) = t
    ELSE NoId

\* passport.deserializeUser(this._deserialise): the user of a token, or null
deserializeUser(t) == deserialise(ParseId(t))

\* out is the last value that left the server as a user: by
\* socket.session(sessionID, 'user', value), as the result of refreshAction or
\* as render.user
UserPayload(via, s, u) == [via |-> via, tag |-> "user", data |-> sanitise(u)]
EmptyPayload(via, s, tag) == [via |-> via, tag |-> tag, data |-> <<>>]

\* a record that does not carry the fail flag of the event
LoginRecordNoFail(way, fail, user, message) ==
  [way |-> way, fail |-> FALSE, user |-> user, message |-> message]

\* new Login({ way, fail, user, message })
LoginRecord(way, fail, user, message) ==
  [way |-> way, fail |-> fail, user |-> user, message |-> message]

\* a response ends the request: req.body and the handler's locals are gone,
\* what the request came to stays
Respond(s, r, outcome, entries) ==
  /\ req' = [req EXCEPT ![s] =
       [IdleReq EXCEPT !.kind = r.kind, !.pc = "done", !.outcome = outcome,
                       !.info = r.info, !.error = r.error,
                       !.prevented = r.prevented, !.wasReg = r.wasReg,
                       !.expect = r.expect, !.reuse = r.reuse]]
  /\ log' = [log EXCEPT ![s] = log[s] \o entries \o <<Entry("respond", NoId, s)>>]

\* a session sends a request when it has none in flight
Ready(s) == req[s].pc \in {"idle", "done"}

\* Login.save() of a record started by _login or _logout completes
AuditSave(s) ==
  /\ audit[s].pending
  /\ logins' = logins (+) SetToBag({audit[s].rec})
  /\ audit' = [audit EXCEPT ![s] = NoAudit]
  /\ UNCHANGED <<users, acls, sessUser, req, log, out, registered, cred>>
  /\ UNCHANGED listenVars
  /\ UNCHANGED moreVars

\* Login.save() of a record rejects: _login or _logout rejects, and so does
\* the emit that called it.  A handler that awaits the emit is left there
\* with the rejection: what follows the await does not run, the request ends
\* in an error.  The rejection of an emit nobody awaits is lost.
AuditFail(s) ==
  /\ audit[s].pending
  /\ audit' = [audit EXCEPT ![s] = NoAudit]
  /\ IF req[s].pc \in {"reg_push", "login_redirect", "logout_clear"}
       THEN /\ req' = [req EXCEPT ![s] =
                 [IdleReq EXCEPT !.kind = req[s].kind, !.pc = "done",
                                 !.outcome = "error", !.info = req[s].info,
                                 !.wasReg = req[s].wasReg,
                                 !.expect = req[s].expect]]
            /\ log' = [log EXCEPT ![s] = Append(log[s], Entry("throw", NoId, s))]
       ELSE UNCHANGED <<req, log>>
  /\ UNCHANGED <<users, acls, sessUser, logins, out, registered, cred>>
  /\ UNCHANGED listenVars
  /\ UNCHANGED moreVars

(***************************************************************************)
(* registerSubmitAction, with the user.register hook and its pre-handler   *)
(* _register.                                                              *)
(***************************************************************************)

\* the Login records written, being written, and the requests in flight
AuditLoad ==
  BagCardinality(logins) + Cardinality({s \in Sessions : audit[s].pending})
    + Cardinality({s \in Sessions : req[s].pc \notin {"idle", "done"}})

\* up to the first await: the email's length, then User.findOne is called
StartRegister(s, e, p, pb) ==
  /\ Ready(s)
  /\ deserialise(sessUser[s]) = NoUser
  /\ ~audit[s].pending
  /\ Cardinality(users) + Cardinality(InFlight("register")) < MaxUsers
  /\ LET r == [IdleReq EXCEPT !.kind = "register", !.email = e,
                              !.password = p, !.passwordb = pb]
     IN IF Len(Trim(e)) < MinLength
          THEN /\ req' = [req EXCEPT ![s] =
                    [r EXCEPT !.pc = "done", !.outcome = "email too short",
                              !.email = <<>>, !.password = <<>>, !.passwordb = <<>>]]
               /\ log' = [log EXCEPT ![s] = <<Entry("respond", NoId, s)>>]
          ELSE /\ req' = [req EXCEPT ![s] = [r EXCEPT !.pc = "reg_find"]]
               /\ log' = [log EXCEPT ![s] = <<>>]
  /\ UNCHANGED <<users, acls, sessUser, audit, logins, out, registered, cred>>
  /\ UNCHANGED listenVars
  /\ UNCHANGED moreVars

\* checks that do not compare the password with its confirmation
RegisterErrorNoConfirm(us, r) ==
  IF EmailMatches(us, r.email) # {} THEN "email taken"
  ELSE IF Len(Trim(r.password)) < MinLength THEN "password too short"
  ELSE ""

\* the checks after User.findOne, in the order of the code: the error of
\* the first one that fails, or "" when all pass
RegisterError(us, r) ==
  IF EmailMatches(us, r.email) # {} THEN "email taken"
  ELSE IF Len(Trim(r.password)) < MinLength THEN "password too short"
  ELSE IF r.password # r.passwordb THEN "passwords do not match"
  ELSE ""

\* User.findOne resolved: the email is free or taken; then the password
\* checks, the digest, and the hook starts its pre-handlers: _register calls
\* User.count
RegFind(s) ==
  /\ req[s].pc = "reg_find"
  /\ LET r == req[s] IN
       IF RegisterError(users, r) # ""
         THEN Respond(s, r, RegisterError(users, r), <<>>)
       ELSE /\ req' = [req EXCEPT ![s] =
                 [r EXCEPT !.pc = "reg_count",
                           !.user = [id |-> NoId, email |-> r.email,
                                     hash |-> Hmac(Secret, r.password),
                                     token |-> <<>>, acl |-> {}]]]
            /\ log' = [log EXCEPT ![s] =
                 Append(log[s], Entry("hook user.register", NoId, s))]
  /\ UNCHANGED <<users, acls, sessUser, audit, logins, out, registered, cred>>
  /\ UNCHANGED listenVars
  /\ UNCHANGED moreVars

\* a pre-handler that adds the admin records whatever the count
RegisterAclsAlways(count) ==
  {n \in AclDefault \cup AclAdmin : n \in AclNames}

\* _register: the policy records of a registering user, given User.count()
RegisterAcls(count) ==
  LET def == IF count = 0 THEN AclDefault \cup AclAdmin ELSE AclDefault
  IN {n \in def : n \in AclNames}

\* a finalizer that does not look at error
PreventedNever(obj) == FALSE

\* the finalizer of the hook: it does not save when a pre-handler set error
Prevented(obj) == obj.error

\* User.count resolved: _register sets the acls; the other pre-handlers run
\* and one may set error; the hook then calls the finalizer, which renders
\* the form again or calls user.save
RegCount(s, veto) ==
  /\ req[s].pc = "reg_count"
  /\ LET r == [req[s] EXCEPT !.user.acl = RegisterAcls(Cardinality(users)),
                             !.error = veto]
     IN IF Prevented(r)
          THEN Respond(s, [r EXCEPT !.prevented = TRUE], "prevented", <<>>)
          ELSE /\ req' = [req EXCEPT ![s] = [r EXCEPT !.pc = "reg_save",
                                                      !.alone = TRUE]]
               /\ UNCHANGED log
  /\ UNCHANGED <<users, acls, sessUser, audit, logins, out, registered, cred>>
  /\ UNCHANGED listenVars
  /\ UNCHANGED moreVars

\* user.save: the user is written
RegSave(s) ==
  /\ req[s].pc = "reg_save"
  /\ LET saved == [req[s].user EXCEPT
                     !.id = Cardinality(users) + Cardinality(deleted) + 1] IN
       /\ users' = users \cup {saved}
       /\ registered' = registered \cup {<<req[s].email, req[s].password>>}
       /\ cred' = cred \cup {[id |-> saved.id, pw |-> req[s].password, old |-> <<>>]}
       /\ req' = [t \in Sessions |->
            IF t = s THEN [req[s] EXCEPT !.user = saved, !.pc = "reg_login",
                                         !.alone = FALSE]
            ELSE IF req[t].pc = "reg_save" THEN [req[t] EXCEPT !.alone = FALSE]
            ELSE req[t]]
       /\ log' = [log EXCEPT ![s] = Append(log[s], Entry("save", saved.id, s))]
  /\ UNCHANGED <<acls, sessUser, audit, logins, out>>
  /\ UNCHANGED listenVars
  /\ UNCHANGED moreVars

\* the hook returned and nothing was prevented: req.login binds the session,
\* its callback awaits the alert
RegLogin(s) ==
  /\ req[s].pc = "reg_login"
  /\ sessUser' = [sessUser EXCEPT ![s] = ParseId(serializeUser(req[s].user))]
  /\ log' = [log EXCEPT ![s] = Append(log[s], Entry("bind", req[s].user.id, s))]
  /\ req' = [req EXCEPT ![s].pc = "reg_emit"]
  /\ UNCHANGED <<users, acls, audit, logins, out, registered, cred>>
  /\ UNCHANGED listenVars
  /\ UNCHANGED moreVars

\* eden.emit('user.login'): _login starts the save of a Login record
RegEmit(s) ==
  /\ req[s].pc = "reg_emit"
  /\ audit' = [audit EXCEPT ![s] =
       [pending |-> TRUE, rec |-> LoginRecord("login", FALSE, req[s].user.id, "")]]
  /\ log' = [log EXCEPT ![s] = Append(log[s], Entry("emit user.login", req[s].user.id, s))]
  /\ req' = [req EXCEPT ![s].pc = "reg_push"]
  /\ UNCHANGED <<users, acls, sessUser, logins, out, registered, cred>>
  /\ UNCHANGED listenVars
  /\ UNCHANGED moreVars

\* the emit resolved: the sanitised user is pushed, then the redirect
RegPush(s) ==
  /\ req[s].pc = "reg_push"
  /\ ~audit[s].pending
  /\ out' = UserPayload("session", s, req[s].user)
  /\ Respond(s, req[s], "registered", <<Entry("push", req[s].user.id, s)>>)
  /\ UNCHANGED <<users, acls, sessUser, audit, logins, registered, cred>>
  /\ UNCHANGED listenVars
  /\ UNCHANGED moreVars

(***************************************************************************)
(* loginSubmitAction: passport's local strategy calls _authenticate, whose *)
(* done() runs the callback of passport.authenticate.                      *)
(***************************************************************************)

\* what a completed reset says of a login with email e and password p: p is
\* the password the reset set for a user with that email, or the one the
\* user had before it
Expect(e, p) ==
  LET done == {c \in cred : /\ c.old # <<>>
                            /\ \E u \in users : u.id = c.id /\ RegexTest(escapeRegex(e), u.email)}
  IN IF \E c \in done : c.pw = p THEN "new"
     ELSE IF \E c \in done : c.old = p THEN "old"
     ELSE "none"

\* a failure branch that emits nothing
LoginFailSilent(s, r) ==
  /\ UNCHANGED audit
  /\ Respond(s, r, "login failed", <<>>)

\* the callback's failure branch: the alert, eden.emit('user.login.fail') (not
\* awaited: _login starts the save of a Login record), then the login page
LoginFail(s, r) ==
  /\ audit' = [audit EXCEPT ![s] =
       [pending |-> TRUE,
        rec |-> LoginRecord("login", TRUE, r.info.user.id, r.info.message)]]
  /\ Respond(s, r, "login failed", <<Entry("emit user.login.fail", r.info.user.id, s)>>)

\* passport-local hands email and password to _authenticate, which calls
\* User.match(...).findOne
StartLogin(s, e, p) ==
  /\ Ready(s)
  /\ deserialise(sessUser[s]) = NoUser
  /\ ~audit[s].pending
  /\ req' = [req EXCEPT ![s] =
       [IdleReq EXCEPT !.kind = "login", !.pc = "auth_find", !.email = e,
                       !.password = p, !.wasReg = (<<e, p>> \in registered),
                       !.expect = Expect(e, p)]]
  /\ log' = [log EXCEPT ![s] = <<>>]
  /\ UNCHANGED <<users, acls, sessUser, audit, logins, out, registered, cred>>
  /\ UNCHANGED listenVars
  /\ UNCHANGED moreVars

\* findOne resolved with one of the matching users, or with none
AuthFind(s) ==
  /\ req[s].pc = "auth_find"
  /\ LET found == EmailMatches(users, req[s].email) IN
       IF found = {}
         THEN /\ LoginFail(s, [req[s] EXCEPT !.info =
                    [kind |-> "UserNotFound", user |-> NoUser,
                     message |-> "User not found"]])
         ELSE /\ \E u \in found :
                   req' = [req EXCEPT ![s].user = u, ![s].pc = "auth_verify"]
              /\ UNCHANGED <<log, audit>>
  /\ UNCHANGED <<users, acls, sessUser, logins, out, registered, cred>>
  /\ UNCHANGED listenVars
  /\ UNCHANGED moreVars

\* user.authenticate resolved: a failure goes to the callback's failure
\* branch; on success req.login binds the session and its callback awaits
\* user.sanitise
AuthVerify(s) ==
  /\ req[s].pc = "auth_verify"
  /\ LET result == authenticate(req[s].user, req[s].password) IN
       IF ~result.ok
         THEN /\ LoginFail(s, [req[s] EXCEPT !.info =
                    [kind |-> "InvalidCredential", user |-> req[s].user,
                     message |-> result.info]])
              /\ UNCHANGED sessUser
         ELSE /\ req' = [req EXCEPT ![s].pc = "login_push",
                                    ![s].info = [kind |-> "ok", user |-> req[s].user,
                                                 message |-> ""]]
              /\ sessUser' = [sessUser EXCEPT ![s] = ParseId(serializeUser(req[s].user))]
              /\ log' = [log EXCEPT ![s] = Append(log[s], Entry("bind", req[s].user.id, s))]
              /\ UNCHANGED audit
  /\ UNCHANGED <<users, acls, logins, out, registered, cred>>
  /\ UNCHANGED listenVars
  /\ UNCHANGED moreVars

\* the sanitised user is pushed to the session; the alert is awaited
LoginPush(s) ==
  /\ req[s].pc = "login_push"
  /\ out' = UserPayload("session", s, req[s].user)
  /\ log' = [log EXCEPT ![s] = Append(log[s], Entry("push", req[s].user.id, s))]
  /\ req' = [req EXCEPT ![s].pc = "login_emit"]
  /\ UNCHANGED <<users, acls, sessUser, audit, logins, registered, cred>>
  /\ UNCHANGED listenVars
  /\ UNCHANGED moreVars

\* eden.emit('user.login'), awaited: _login starts the save of a Login record
LoginEmit(s) ==
  /\ req[s].pc = "login_emit"
  /\ audit' = [audit EXCEPT ![s] =
       [pending |-> TRUE, rec |-> LoginRecord("login", FALSE, req[s].user.id, "")]]
  /\ log' = [log EXCEPT ![s] = Append(log[s], Entry("emit user.login", req[s].user.id, s))]
  /\ req' = [req EXCEPT ![s].pc = "login_redirect"]
  /\ UNCHANGED <<users, acls, sessUser, logins, out, registered, cred>>
  /\ UNCHANGED listenVars
  /\ UNCHANGED moreVars

\* the emit resolved: the redirect
LoginRedirect(s) ==
  /\ req[s].pc = "login_redirect"
  /\ ~audit[s].pending
  /\ Respond(s, req[s], "logged in", <<>>)
  /\ UNCHANGED <<users, acls, sessUser, audit, logins, out, registered, cred>>
  /\ UNCHANGED listenVars
  /\ UNCHANGED moreVars

(***************************************************************************)
(* forgotSubmitAction and resetSubmitAction.  user.save() writes the       *)
(* fields the handler set on the user it loaded.                           *)
(***************************************************************************)

\* up to the await: User.or({ email }).findOne is called
StartForgot(s, e) ==
  /\ Ready(s)
  /\ deserialise(sessUser[s]) = NoUser
  /\ ~audit[s].pending
  /\ req' = [req EXCEPT ![s] =
       [IdleReq EXCEPT !.kind = "forgot", !.pc = "forgot_find", !.email = e]]
  /\ log' = [log EXCEPT ![s] = <<>>]
  /\ UNCHANGED <<users, acls, sessUser, audit, logins, out, registered, cred>>
  /\ UNCHANGED listenVars
  /\ UNCHANGED moreVars

\* findOne resolved: no user renders the forgot page; else the token is drawn
\* and set, and user.save is called
ForgotFind(s) ==
  /\ req[s].pc = "forgot_find"
  /\ LET found == EmailMatches(users, Lower(req[s].email)) IN
       IF found = {}
         THEN /\ Respond(s, req[s], "email not found", <<>>)
              /\ UNCHANGED issued
         ELSE /\ issued < MaxTokens
              /\ \E u \in found :
                   req' = [req EXCEPT ![s].pc = "forgot_save",
                                      ![s].user = [u EXCEPT !.token = Token(issued + 1)]]
              /\ issued' = issued + 1
              /\ UNCHANGED log
  /\ UNCHANGED <<users, acls, sessUser, audit, logins, out, registered, cred>>
  /\ UNCHANGED listenVars
  /\ UNCHANGED <<boot, deleted, used, client>>

\* user.save: the token is written; the alert, the email with the token, the
\* redirect
ForgotSave(s) ==
  /\ req[s].pc = "forgot_save"
  /\ users' = {IF u.id = req[s].user.id THEN [u EXCEPT !.token = req[s].user.token]
                                        ELSE u : u \in users}
  /\ Respond(s, req[s], "token sent", <<Entry("save", req[s].user.id, s)>>)
  /\ UNCHANGED <<acls, sessUser, audit, logins, out, registered, cred>>
  /\ UNCHANGED listenVars
  /\ UNCHANGED moreVars

\* a reset that stores the password itself
ResetHashPlain(r) == r.password

\* the digest resetSubmitAction sets on the user
ResetHash(r) == Hmac(Secret, r.password)

\* a reset that does not look at the confirmation
ResetChecksNoMatch(r) ==
  IF Len(Trim(r.password)) < MinLength THEN "password too short" ELSE "ok"

\* the checks of resetSubmitAction on the new password
ResetChecks(r) ==
  IF Len(Trim(r.password)) < MinLength THEN "password too short"
  ELSE IF r.password # r.passwordb THEN "passwords do not match"
  ELSE "ok"

\* up to the await: without a token the redirect to /forgot; else
\* User.findOne({ token }) is called
StartReset(s, k, p, pb) ==
  /\ Ready(s)
  /\ deserialise(sessUser[s]) = NoUser
  /\ ~audit[s].pending
  /\ LET r == [IdleReq EXCEPT !.kind = "reset", !.token = k, !.password = p,
                              !.passwordb = pb, !.reuse = (k \in used)]
     IN IF k = <<>>
          THEN /\ req' = [req EXCEPT ![s] =
                    [IdleReq EXCEPT !.kind = "reset", !.pc = "done",
                                    !.outcome = "no token"]]
               /\ log' = [log EXCEPT ![s] = <<Entry("respond", NoId, s)>>]
          ELSE /\ req' = [req EXCEPT ![s] = [r EXCEPT !.pc = "reset_find"]]
               /\ log' = [log EXCEPT ![s] = <<>>]
  /\ UNCHANGED <<users, acls, sessUser, audit, logins, out, registered, cred>>
  /\ UNCHANGED listenVars
  /\ UNCHANGED moreVars

\* findOne resolved: no user redirects to /forgot; else the checks, the
\* digest is set and user.save is called
ResetFind(s) ==
  /\ req[s].pc = "reset_find"
  /\ LET found == {u \in users : u.token = req[s].token} IN
       IF found = {}
         THEN Respond(s, req[s], "invalid token", <<>>)
       ELSE IF ResetChecks(req[s]) # "ok"
         THEN Respond(s, req[s], ResetChecks(req[s]), <<>>)
       ELSE /\ \E u \in found :
                 req' = [req EXCEPT ![s].pc = "reset_save",
                                    ![s].user = [u EXCEPT !.hash = ResetHash(req[s])]]
            /\ UNCHANGED log
  /\ UNCHANGED <<users, acls, sessUser, audit, logins, out, registered, cred>>
  /\ UNCHANGED listenVars
  /\ UNCHANGED moreVars

\* user.save: the digest is written; the alert, the redirect to /login.
\* (A login in flight no longer follows a completed reset alone.)
ResetSave(s) ==
  /\ req[s].pc = "reset_save"
  /\ LET id == req[s].user.id
         r == [IdleReq EXCEPT !.kind = "reset", !.pc = "done",
                              !.outcome = "password updated",
                              !.reuse = req[s].reuse]
     IN /\ users' = {IF u.id = id THEN [u EXCEPT !.hash = req[s].user.hash]
                                  ELSE u : u \in users}
        /\ cred' = {IF c.id = id
                      THEN [c EXCEPT !.pw = req[s].password, !.old = c.pw]
                      ELSE c : c \in cred}
        /\ used' = used \cup {req[s].token}
        /\ req' = [t \in Sessions |->
             IF t = s THEN r
             ELSE IF req[t].kind = "login" /\ req[t].pc # "done"
               THEN [req[t] EXCEPT !.expect = "none"]
             ELSE req[t]]
        /\ log' = [log EXCEPT ![s] =
             log[s] \o <<Entry("save", id, s), Entry("respond", NoId, s)>>]
  /\ UNCHANGED <<acls, sessUser, audit, logins, out, registered>>
  /\ UNCHANGED listenVars
  /\ UNCHANGED <<boot, deleted, issued, client>>

(***************************************************************************)
(* logoutAction                                                            *)
(***************************************************************************)

\* a logout that clears the binding before it emits
StartLogoutClearsFirst(s) ==
  /\ Ready(s)
  /\ deserialise(sessUser[s]) # NoUser
  /\ ~audit[s].pending
  /\ LET u == deserialise(sessUser[s]) IN
       /\ req' = [req EXCEPT ![s] =
            [IdleReq EXCEPT !.kind = "logout", !.pc = "logout_clear", !.user = u]]
       /\ audit' = [audit EXCEPT ![s] =
            [pending |-> TRUE, rec |-> LoginRecord("logout", FALSE, u.id, "")]]
       /\ sessUser' = [sessUser EXCEPT ![s] = NoId]
       /\ log' = [log EXCEPT ![s] =
            <<Entry("unbind", NoId, s),
              [ev |-> "emit user.logout", user |-> u.id, bound |-> NoId]>>]
  /\ UNCHANGED <<users, acls, logins, out, registered, cred>>
  /\ UNCHANGED listenVars
  /\ UNCHANGED moreVars

\* req.user is the deserialised user of the session; eden.emit('user.logout'),
\* awaited: _logout starts the save of a Login record
StartLogout(s) ==
  /\ Ready(s)
  /\ deserialise(sessUser[s]) # NoUser
  /\ ~audit[s].pending
  /\ LET u == deserialise(sessUser[s]) IN
       /\ req' = [req EXCEPT ![s] =
            [IdleReq EXCEPT !.kind = "logout", !.pc = "logout_clear", !.user = u]]
       /\ audit' = [audit EXCEPT ![s] =
            [pending |-> TRUE, rec |-> LoginRecord("logout", FALSE, u.id, "")]]
       /\ log' = [log EXCEPT ![s] = <<Entry("emit user.logout", u.id, s)>>]
  /\ UNCHANGED <<users, acls, sessUser, logins, out, registered, cred>>
  /\ UNCHANGED listenVars
  /\ UNCHANGED moreVars

\* the emit resolved: req.logout clears the binding, false is pushed to the
\* session; the alert is awaited
LogoutClear(s) ==
  /\ req[s].pc = "logout_clear"
  /\ ~audit[s].pending
  /\ sessUser' = [sessUser EXCEPT ![s] = NoId]
  /\ out' = EmptyPayload("session", s, "false")
  /\ log' = [log EXCEPT ![s] = log[s] \o
       <<Entry("unbind", NoId, s), [ev |-> "push", user |-> NoId, bound |-> NoId]>>]
  /\ req' = [req EXCEPT ![s].pc = "logout_redirect"]
  /\ UNCHANGED <<users, acls, audit, logins, registered, cred>>
  /\ UNCHANGED listenVars
  /\ UNCHANGED moreVars

\* the redirect
LogoutRedirect(s) ==
  /\ req[s].pc = "logout_redirect"
  /\ Respond(s, req[s], "logged out", <<>>)
  /\ UNCHANGED <<users, acls, sessUser, audit, logins, out, registered, cred>>
  /\ UNCHANGED listenVars
  /\ UNCHANGED moreVars

(***************************************************************************)
(* refreshAction and the view.compile pre-handler                          *)
(***************************************************************************)

\* refreshAction: the sanitised user of the session, or null
refreshAction(s) ==
  /\ Ready(s)
  /\ LET u == deserialise(sessUser[s]) IN
       out' = IF u # NoUser THEN UserPayload("refresh", s, u)
                               ELSE EmptyPayload("refresh", s, "null")
  /\ UNCHANGED <<users, acls, sessUser, req, log, audit, logins, registered, cred>>
  /\ UNCHANGED listenVars
  /\ UNCHANGED moreVars

\* a page is rendered for a session with a user: render.user is set
ViewCompile(s) ==
  /\ Ready(s)
  /\ sessUser[s] # NoId
  /\ LET u == deserialise(sessUser[s]) IN
       /\ u # NoUser
       /\ out' = UserPayload("view", s, u)
  /\ UNCHANGED <<users, acls, sessUser, req, log, audit, logins, registered, cred>>
  /\ UNCHANGED listenVars
  /\ UNCHANGED moreVars

(***************************************************************************)
(* listenAction and deafenAction: socket calls.  A connection may have     *)
(* several calls in flight; calls is the set of calls that have not       *)
(* returned.                                                               *)
(*   joined     the rooms user.<id> each session's socket is in            *)
(*   listeners  the registrations <<id, sessionID, listenID>>              *)
(*   connected  the sessions whose socket is connected                     *)
(*   hist       the key of the last clean deafen call that returned        *)
(***************************************************************************)
EntityIds == {NoId, 1, 2}
Tokens == {"t1", "t2"}

NoKey == <<NoId, 0, "">>

Call(op, s, id, uuid, clean) ==
  [op |-> op, sess |-> s, id |-> id, uuid |-> uuid, clean |-> clean]

CallKey(c) == <<c.id, c.sess, c.uuid>>

\* the calls on key k that have not returned
Pending(k) == {c \in calls : CallKey(c) = k}

\* syncHelper.addListener(model, { listenID, sessionID, atomic : true }): one
\* atomic step adds the registration; without a model it fails
addListener(model, k) ==
  IF model = NoUser THEN listeners ELSE listeners \cup {k}

\* syncHelper.removeListener(model, { listenID, sessionID, atomic : true }):
\* one atomic step removes the registration, if there is one
removeListener(model, k) ==
  IF model = NoUser THEN listeners ELSE listeners \ {k}

\* the registration a listen call adds
ListenKey(c) == <<c.id, c.sess, c.uuid>>

\* a deafen that names another token
DeafenKeyOther(c) ==
  <<c.id, c.sess, IF c.uuid = "t1" THEN "t2" ELSE "t1">>

\* the registration a deafen call removes
DeafenKey(c) == <<c.id, c.sess, c.uuid>>

\* listenAction up to its await: no id returns null; else the socket joins
\* the room and User.findById is called.  (A deafen in flight on the same
\* key no longer follows the listen before it alone.)
listenAction(s, id, uuid) ==
  /\ Cardinality(calls) < MaxCalls
  /\ s \in connected
  /\ IF id = NoId
       THEN UNCHANGED <<joined, calls, hist>>
       ELSE /\ Call("listen", s, id, uuid, FALSE) \notin calls
            /\ joined' = joined \cup {<<s, id>>}
            /\ calls' = {IF CallKey(d) = <<id, s, uuid>>
                           THEN [d EXCEPT !.clean = FALSE] ELSE d : d \in calls}
                          \cup {Call("listen", s, id, uuid, FALSE)}
            /\ hist' = IF hist = <<id, s, uuid>> THEN NoKey ELSE hist
  /\ UNCHANGED <<listeners, connected>>
  /\ UNCHANGED authVars
  /\ UNCHANGED moreVars

\* findById resolved: addListener
ListenAdd(c) ==
  /\ c \in calls
  /\ c.op = "listen"
  /\ listeners' = addListener(deserialise(c.id), ListenKey(c))
  /\ calls' = calls \ {c}
  /\ UNCHANGED <<joined, connected, hist>>
  /\ UNCHANGED authVars
  /\ UNCHANGED moreVars

\* deafenAction up to its await: no id returns null; else the socket leaves
\* the room and User.findById is called.  (The call is clean when it follows
\* a listen on its key that has returned, with no other call on the key in
\* flight.)
deafenAction(s, id, uuid) ==
  /\ Cardinality(calls) < MaxCalls
  /\ s \in connected
  /\ IF id = NoId
       THEN UNCHANGED <<joined, calls>>
       ELSE LET clean == Pending(<<id, s, uuid>>) = {} /\ <<id, s, uuid>> \in listeners
            IN /\ Call("deafen", s, id, uuid, clean) \notin calls
               /\ joined' = joined \ {<<s, id>>}
               /\ calls' = calls \cup {Call("deafen", s, id, uuid, clean)}
  /\ UNCHANGED <<listeners, connected, hist>>
  /\ UNCHANGED authVars
  /\ UNCHANGED moreVars

\* findById resolved: removeListener
DeafenRemove(c) ==
  /\ c \in calls
  /\ c.op = "deafen"
  /\ listeners' = removeListener(deserialise(c.id), DeafenKey(c))
  /\ calls' = calls \ {c}
  /\ hist' = IF c.clean THEN CallKey(c) ELSE hist
  /\ UNCHANGED <<joined, connected>>
  /\ UNCHANGED authVars
  /\ UNCHANGED moreVars

\* teardown(session): every registration of the session is removed
teardown(s) == {k \in listeners : k[2] # s}

\* the socket of a session disconnects: it is in no room any more, and the
\* session's registrations are swept; its calls in flight go on
Disconnect(s) ==
  /\ s \in connected
  /\ connected' = connected \ {s}
  /\ joined' = {j \in joined : j[1] # s}
  /\ listeners' = teardown(s)
  /\ UNCHANGED <<calls, hist>>
  /\ UNCHANGED authVars
  /\ UNCHANGED moreVars

(***************************************************************************)
(* _acl: the bootstrap of the acl collection.  A run maps every entry of   *)
(* the configured lists to a task of its own (Promise.all): the task       *)
(* counts the records with the entry's name and, when there is none,       *)
(* creates one.                                                            *)
(*   boot[<<r, i>>]  the task of run r for entry i: its position, and      *)
(*                   whether the run began after some run had completed    *)
(***************************************************************************)
BootTasks == (1..MaxRuns) \X (1..Len(AclList))

IdleTask == [pc |-> "idle", late |-> FALSE]

Started(r) == \A i \in 1..Len(AclList) : boot[<<r, i>>].pc # "idle"
Completed(r) == \A i \in 1..Len(AclList) : boot[<<r, i>>].pc = "done"

\* a bootstrap that creates whatever it counted
AclMissingNot(check) == TRUE

\* if (!check)
AclMissing(check) == check = 0

\* a run begins: every task calls Acl.count({ name })
BootStart(r) ==
  /\ ~Started(r)
  /\ r > 1 => Started(r - 1)
  /\ boot' = [t \in BootTasks |->
       IF t[1] = r
         THEN [pc |-> "count", late |-> (\E q \in 1..MaxRuns : Completed(q))]
         ELSE boot[t]]
  /\ UNCHANGED authVars
  /\ UNCHANGED listenVars
  /\ UNCHANGED <<deleted, issued, used, client>>

\* Acl.count resolved: with no record of the name a new Acl is built and its
\* save is called
AclCount(t) ==
  /\ boot[t].pc = "count"
  /\ LET check == Cardinality({a \in acls : a.name = AclList[t[2]]}) IN
       boot' = [boot EXCEPT ![t].pc = IF AclMissing(check) THEN "save" ELSE "done"]
  /\ UNCHANGED authVars
  /\ UNCHANGED listenVars
  /\ UNCHANGED <<deleted, issued, used, client>>

\* create.save: the record is written
AclSave(t) ==
  /\ boot[t].pc = "save"
  /\ acls' = acls \cup {AclRecord(Cardinality(acls) + 1, AclList[t[2]])}
  /\ boot' = [boot EXCEPT ![t].pc = "done"]
  /\ UNCHANGED <<users, sessUser, req, log, audit, logins, out, registered, cred>>
  /\ UNCHANGED listenVars
  /\ UNCHANGED <<deleted, issued, used, client>>

(***************************************************************************)
(* EdenUser: the user object of the page of one session, the Browser.      *)
(*   client.data    __data, a map from keys to values                      *)
(*   client.fields  __fields                                               *)
(*   client.last    the value __update was last called with: "user",       *)
(*                  "false" or "null"                                      *)
(*   client.error   whether that call threw                                *)
(***************************************************************************)
Browser == 1

NoData == [k \in {} |-> <<>>]

NoClient == [data |-> NoData, fields |-> {}, last |-> "none", error |-> FALSE]

\* exists: !!this.get('_id')
exists(c) == "_id" \in DOMAIN c.data /\ c.data["_id"] # <<>>

\* clear: __data = {}
clear(c) == [c EXCEPT !.data = NoData]

\* __update: user.__data is read first, which throws a TypeError for null;
\* false clears the data; the keys of a user are set one by one
Update(c, msg) ==
  LET d == [c EXCEPT !.last = msg.tag, !.error = FALSE] IN
    IF msg.tag = "null" THEN [d EXCEPT !.error = TRUE]
    ELSE IF msg.tag = "false" THEN clear(d)
    ELSE [d EXCEPT
            !.data = [k \in DOMAIN c.data \cup DOMAIN msg.data |->
                        IF k \in DOMAIN msg.data THEN msg.data[k] ELSE c.data[k]],
            !.fields = c.fields \cup DOMAIN msg.data]

\* the page receives the value that left the server for it: the 'user'
\* event of the socket, the result awaited by refresh, or the user of a
\* rendered page set in the store
ClientUpdate ==
  /\ out.via \in {"session", "refresh", "view"}
  /\ client' = Update(client, out)
  /\ out' = EmptyPayload("none", 0, "none")
  /\ UNCHANGED <<users, acls, sessUser, req, log, audit, logins, registered, cred>>
  /\ UNCHANGED listenVars
  /\ UNCHANGED <<boot, deleted, issued, used>>

AuthInit ==
  /\ users = {}
  /\ acls = AclBooted
  /\ sessUser = [s \in Sessions |-> NoId]
  /\ req = [s \in Sessions |-> IdleReq]
  /\ log = [s \in Sessions |-> <<>>]
  /\ audit = [s \in Sessions |-> NoAudit]
  /\ logins = EmptyBag
  /\ out = EmptyPayload("none", 0, "none")
  /\ registered = {}
  /\ cred = {}

MoreInit ==
  /\ boot = [t \in BootTasks |->
       IF t[1] = 1 THEN [pc |-> "done", late |-> FALSE] ELSE IdleTask]
  /\ deleted = {}
  /\ issued = 0
  /\ used = {}
  /\ client = NoClient

ListenInit ==
  /\ joined = {}
  /\ listeners = {}
  /\ calls = {}
  /\ connected = Sessions
  /\ hist = NoKey

Init == AuthInit /\ ListenInit /\ MoreInit

Next ==
  \/ \E s \in Sessions, e \in Emails, p \in Passwords :
       \E pb \in Confirmations(p) :
         AuditLoad < MaxAudit /\ StartRegister(s, e, p, pb)
  \/ \E s \in Sessions : RegFind(s)
  \/ \E s \in Sessions, veto \in BOOLEAN : RegCount(s, veto)
  \/ \E s \in Sessions : RegSave(s)
  \/ \E s \in Sessions : RegLogin(s)
  \/ \E s \in Sessions : RegEmit(s)
  \/ \E s \in Sessions : RegPush(s)
  \/ \E s \in Sessions, e \in Emails, p \in LoginPasswords :
       AuditLoad < MaxAudit /\ StartLogin(s, e, p)
  \/ \E s \in Sessions : AuthFind(s)
  \/ \E s \in Sessions : AuthVerify(s)
  \/ \E s \in Sessions : LoginPush(s)
  \/ \E s \in Sessions : LoginEmit(s)
  \/ \E s \in Sessions : LoginRedirect(s)
  \/ \E s \in Sessions : AuditLoad < MaxAudit /\ StartLogout(s)
  \/ \E s \in Sessions : LogoutClear(s)
  \/ \E s \in Sessions : LogoutRedirect(s)
  \/ \E s \in Sessions : refreshAction(s)
  \/ \E s \in Sessions : ViewCompile(s)
  \/ \E s \in Sessions : AuditSave(s)

Spec == Init /\ [][Next]_vars

\* concurrent registrations of one email in two spellings, and the logins
\* and logouts that follow
NextRace ==
  \/ \E s \in Sessions, e \in {EmailA, EmailAUp}, p \in {Pw1, Pw2} :
       AuditLoad < RaceAudit /\ StartRegister(s, e, p, p)
  \/ \E s \in Sessions : RegFind(s)
  \/ \E s \in Sessions : RegCount(s, FALSE)
  \/ \E s \in Sessions : RegSave(s)
  \/ \E s \in Sessions : RegLogin(s)
  \/ \E s \in Sessions : RegEmit(s)
  \/ \E s \in Sessions : RegPush(s)
  \/ \E s \in Sessions, e \in {EmailA, EmailAUp}, p \in {Pw1, Pw2} :
       AuditLoad < RaceAudit /\ StartLogin(s, e, p)
  \/ \E s \in Sessions : AuthFind(s)
  \/ \E s \in Sessions : AuthVerify(s)
  \/ \E s \in Sessions : LoginPush(s)
  \/ \E s \in Sessions : LoginEmit(s)
  \/ \E s \in Sessions : LoginRedirect(s)
  \/ \E s \in Sessions : AuditLoad < RaceAudit /\ StartLogout(s)
  \/ \E s \in Sessions : LogoutClear(s)
  \/ \E s \in Sessions : LogoutRedirect(s)
  \/ \E s \in Sessions : AuditSave(s)

SpecRace == Init /\ [][NextRace]_vars

\* the reset of a password, with the registrations, logins and logouts
\* around it
ResetTokens == {<<>>, Bogus} \cup {Token(n) : n \in 1..MaxTokens}

\* the new password and its confirmation: two valid bodies, a password too
\* short once trimmed, a confirmation that differs
ResetBodies == {<<Pw1, Pw1>>, <<Pw2, Pw2>>, <<PwPad, PwPad>>, <<Pw2, Pw1>>}

\* registrations come one after the other, from session 1; both sessions
\* ask for tokens, reset, log in and log out
NextReset ==
  \/ \E e \in {EmailA, EmailX} :
       AuditLoad < MaxAudit /\ StartRegister(1, e, Pw1, Pw1)
  \/ \E s \in Sessions : RegFind(s)
  \/ \E s \in Sessions : RegCount(s, FALSE)
  \/ \E s \in Sessions : RegSave(s)
  \/ \E s \in Sessions : RegLogin(s)
  \/ \E s \in Sessions : RegEmit(s)
  \/ \E s \in Sessions : RegPush(s)
  \/ \E s \in Sessions, p \in {Pw1, Pw2} :
       AuditLoad < MaxAudit /\ StartLogin(s, EmailA, p)
  \/ \E s \in Sessions : AuthFind(s)
  \/ \E s \in Sessions : AuthVerify(s)
  \/ \E s \in Sessions : LoginPush(s)
  \/ \E s \in Sessions : LoginEmit(s)
  \/ \E s \in Sessions : LoginRedirect(s)
  \/ \E s \in Sessions : AuditLoad < MaxAudit /\ StartLogout(s)
  \/ \E s \in Sessions : LogoutClear(s)
  \/ \E s \in Sessions : LogoutRedirect(s)
  \/ \E s \in Sessions : AuditSave(s)
  \/ \E s \in Sessions, e \in {EmailAUp, EmailPad} : StartForgot(s, e)
  \/ \E s \in Sessions : ForgotFind(s)
  \/ \E s \in Sessions : ForgotSave(s)
  \/ \E s \in Sessions, k \in ResetTokens, b \in ResetBodies :
       StartReset(s, k, b[1], b[2])
  \/ \E s \in Sessions : ResetFind(s)
  \/ \E s \in Sessions : ResetSave(s)

SpecReset == Init /\ [][NextReset]_vars

\* the runs of the bootstrap, from an empty acl collection
InitAcl ==
  /\ AuthInit!1 /\ AuthInit!3 /\ AuthInit!4 /\ AuthInit!5 /\ AuthInit!6
  /\ AuthInit!7 /\ AuthInit!8 /\ AuthInit!9 /\ AuthInit!10
  /\ acls = {}
  /\ ListenInit
  /\ boot = [t \in BootTasks |-> IdleTask]
  /\ MoreInit!2 /\ MoreInit!3 /\ MoreInit!4 /\ MoreInit!5

NextAcl ==
  \/ \E r \in 1..MaxRuns : BootStart(r)
  \/ \E t \in BootTasks : AclCount(t)
  \/ \E t \in BootTasks : AclSave(t)

SpecAcl == InitAcl /\ [][NextAcl]_vars

\* a user is removed from the collection; its id is never given again
DeleteUser(id) ==
  /\ Cardinality(deleted) < MaxDeleted
  /\ deserialise(id) # NoUser
  /\ users' = users \ {deserialise(id)}
  /\ deleted' = deleted \cup {id}
  /\ UNCHANGED <<acls, sessUser, req, log, audit, logins, out, registered, cred>>
  /\ UNCHANGED listenVars
  /\ UNCHANGED <<boot, issued, used, client>>

\* registrations, logouts and refreshes while users are removed
NextSession ==
  \/ \E s \in Sessions, e \in {EmailA, EmailX} :
       AuditLoad < MaxAudit /\ StartRegister(s, e, Pw1, Pw1)
  \/ \E s \in Sessions : RegFind(s)
  \/ \E s \in Sessions : RegCount(s, FALSE)
  \/ \E s \in Sessions : RegSave(s)
  \/ \E s \in Sessions : RegLogin(s)
  \/ \E s \in Sessions : RegEmit(s)
  \/ \E s \in Sessions : RegPush(s)
  \/ \E s \in Sessions : AuditLoad < MaxAudit /\ StartLogout(s)
  \/ \E s \in Sessions : LogoutClear(s)
  \/ \E s \in Sessions : LogoutRedirect(s)
  \/ \E s \in Sessions : refreshAction(s)
  \/ \E s \in Sessions : ViewCompile(s)
  \/ \E s \in Sessions : AuditSave(s)
  \/ \E id \in 1..MaxUsers : DeleteUser(id)

SpecSession == Init /\ [][NextSession]_vars

\* the requests of the Browser's session and the page that follows them
NextClient ==
  \/ \E e \in {EmailA, EmailX} :
       AuditLoad < MaxAudit /\ StartRegister(Browser, e, Pw1, Pw1)
  \/ RegFind(Browser)
  \/ RegCount(Browser, FALSE)
  \/ RegSave(Browser)
  \/ RegLogin(Browser)
  \/ RegEmit(Browser)
  \/ RegPush(Browser)
  \/ \E p \in {Pw1, Pw2} :
       AuditLoad < MaxAudit /\ StartLogin(Browser, EmailA, p)
  \/ AuthFind(Browser)
  \/ AuthVerify(Browser)
  \/ LoginPush(Browser)
  \/ LoginEmit(Browser)
  \/ LoginRedirect(Browser)
  \/ AuditLoad < MaxAudit /\ StartLogout(Browser)
  \/ LogoutClear(Browser)
  \/ LogoutRedirect(Browser)
  \/ refreshAction(Browser)
  \/ ViewCompile(Browser)
  \/ AuditSave(Browser)
  \/ ClientUpdate

SpecClient == Init /\ [][NextClient]_vars

\* registrations, logins and logouts whose Login.save() may reject
NextFault ==
  \/ \E s \in Sessions, p \in {Pw1, Pw2} :
       AuditLoad < MaxAudit /\ StartRegister(s, EmailA, p, p)
  \/ \E s \in Sessions : RegFind(s)
  \/ \E s \in Sessions : RegCount(s, FALSE)
  \/ \E s \in Sessions : RegSave(s)
  \/ \E s \in Sessions : RegLogin(s)
  \/ \E s \in Sessions : RegEmit(s)
  \/ \E s \in Sessions : RegPush(s)
  \/ \E s \in Sessions, p \in {Pw1, Pw2} :
       AuditLoad < MaxAudit /\ StartLogin(s, EmailA, p)
  \/ \E s \in Sessions : AuthFind(s)
  \/ \E s \in Sessions : AuthVerify(s)
  \/ \E s \in Sessions : LoginPush(s)
  \/ \E s \in Sessions : LoginEmit(s)
  \/ \E s \in Sessions : LoginRedirect(s)
  \/ \E s \in Sessions : AuditLoad < MaxAudit /\ StartLogout(s)
  \/ \E s \in Sessions : LogoutClear(s)
  \/ \E s \in Sessions : LogoutRedirect(s)
  \/ \E s \in Sessions : AuditSave(s)
  \/ \E s \in Sessions : AuditFail(s)

SpecFault == Init /\ [][NextFault]_vars

\* the socket calls, with one user (id 1) in the collection
ListenUser ==
  [id |-> 1, email |-> EmailA, hash |-> Hmac(Secret, Pw1), token |-> <<>>,
   acl |-> AclDefault \cup AclAdmin]

InitListen ==
  /\ AuthInit!2 /\ AuthInit!3 /\ AuthInit!4 /\ AuthInit!5 /\ AuthInit!6
  /\ AuthInit!7 /\ AuthInit!8 /\ AuthInit!9 /\ AuthInit!10
  /\ users = {ListenUser}
  /\ ListenInit
  /\ MoreInit

NextListen ==
  \/ \E s \in Sessions, id \in EntityIds, uuid \in Tokens : listenAction(s, id, uuid)
  \/ \E c \in calls : ListenAdd(c)
  \/ \E s \in Sessions, id \in EntityIds, uuid \in Tokens : deafenAction(s, id, uuid)
  \/ \E c \in calls : DeafenRemove(c)
  \/ \E s \in Sessions : Disconnect(s)

SpecListen == InitListen /\ [][NextListen]_vars

(***************************************************************************)
(* Properties.                                                             *)
(***************************************************************************)

\* two emails are the same up to case
SameEmail(a, b) ==
  /\ Len(a) = Len(b)
  /\ \A i \in 1..Len(a) : Fold(a[i]) = Fold(b[i])

Events(s, ev) == {i \in 1..Len(log[s]) : log[s][i].ev = ev}

\* C1: an Authenticate with an email and a password that a Register saved
\* before it succeeds: it is neither UserNotFound nor InvalidCredential.
C1_RegisteredAuthenticates ==
  \A s \in Sessions :
    (req[s].kind = "login" /\ req[s].wasReg /\ req[s].info.kind # "none")
      => req[s].info.kind = "ok"

\* C2: Authenticate answers UserNotFound exactly when no user has the email
\* up to case; it resolves to a user with that email, and a password that
\* was not registered with the resolved user's email is answered
\* InvalidCredential, with the verifier's reason and the resolved user.
C2_WrongPassword ==
  [][\A s \in Sessions :
       /\ (req[s].pc = "auth_find" /\ req'[s].pc # "auth_find") =>
            /\ (req'[s].info.kind = "UserNotFound")
                 <=> ~(\E u \in users : SameEmail(u.email, req[s].email))
            /\ req'[s].pc = "auth_verify" =>
                 /\ req'[s].user \in users
                 /\ SameEmail(req'[s].user.email, req[s].email)
       /\ (/\ req[s].pc = "auth_verify" /\ req'[s].pc # "auth_verify"
           /\ <<req[s].user.email, req[s].password>> \notin registered) =>
            req'[s].info = [kind |-> "InvalidCredential", user |-> req[s].user,
                            message |-> "Incorrect password"]
    ]_vars

C2_Witness ==
  \E s \in Sessions :
    /\ req[s].pc = "done"
    /\ req[s].info.kind = "InvalidCredential"
    /\ req[s].info.user \in users

\* C3: a value that leaves the server as a user is false, null or the
\* sanitised projection of a user, which has no hash and no token field and
\* no field holding the digest of a user.
C3_NoCredentialLeaves ==
  /\ out.tag \in {"none", "false", "null", "user"}
  /\ out.tag = "false" => out.via = "session"
  /\ out.tag = "null" => out.via = "refresh"
  /\ out.tag = "user" =>
       /\ "hash" \notin DOMAIN out.data
       /\ "token" \notin DOMAIN out.data
       /\ DOMAIN out.data = SanitisedBase \cup UserFields
       /\ \E u \in users : out.data["id"] = IdString(u.id)
       /\ \A f \in DOMAIN out.data : \A u \in users :
            /\ out.data[f] # u.hash
            /\ u.token # <<>> => out.data[f] # u.token

C3_Witness ==
  /\ out.tag = "user"
  /\ out.via = "refresh"
  /\ out.data["email"] = EmailA

C9_LogoutOrder ==
  \A s \in Sessions :
    req[s].kind = "logout" =>
      /\ \A i \in Events(s, "unbind") :
           \E j \in Events(s, "emit user.logout") :
             /\ j < i
             /\ log[s][j].user # NoId
             /\ log[s][j].bound = log[s][j].user
      /\ \A i \in Events(s, "push") :
           /\ log[s][i].user = NoId
           /\ \E j \in Events(s, "unbind") : j < i
      /\ Events(s, "unbind") # {} => sessUser[s] = NoId
      /\ req[s].pc = "done" =>
           /\ sessUser[s] = NoId
           /\ Events(s, "push") # {}

C9_Witness ==
  \E s \in Sessions :
    /\ req[s].kind = "logout" /\ req[s].pc = "done"
    /\ out = EmptyPayload("session", s, "false")

\* C10: a failed Authenticate emits user.login.fail once, before the
\* response, and the session stays anonymous; a successful one emits none.
C10_FailEmitted ==
  \A s \in Sessions :
    req[s].kind = "login" =>
      /\ req[s].info.kind \in {"UserNotFound", "InvalidCredential"} =>
           /\ Cardinality(Events(s, "emit user.login.fail")) = 1
           /\ \A i \in Events(s, "respond") :
                \E j \in Events(s, "emit user.login.fail") : j < i
           /\ Events(s, "respond") # {}
           /\ sessUser[s] = NoId
           /\ \/ audit[s].pending /\ audit[s].rec.fail
              \/ \E r \in BagToSet(logins) : r.fail /\ r.way = "login"
      /\ req[s].info.kind \in {"none", "ok"} =>
           Events(s, "emit user.login.fail") = {}

C10_Witness ==
  \E s \in Sessions :
    /\ req[s].kind = "login" /\ req[s].pc = "done"
    /\ req[s].info.kind = "UserNotFound"
    /\ \E r \in BagToSet(logins) : r.fail /\ r.message = "User not found"

\* C4: when a deafen that follows a returned listen on the same key has
\* returned, the registration under that key is gone, whatever calls on
\* other keys ran meanwhile.
C4_ListenThenDeafen ==
  hist # NoKey => hist \notin listeners

C4_Witness ==
  /\ hist # NoKey
  /\ \E k \in listeners : k[1] = hist[1] /\ k[3] # hist[3]

Registered(s, id) == \E k \in listeners : k[1] = id /\ k[2] = s

\* C5: a deafen call takes the session's socket out of the entity's room
\* only when the session has no registration on the entity under another
\* token.
C5_DeafenKeepsRoom ==
  [][\A s \in connected' : \A id \in EntityIds :
       (<<s, id>> \in joined /\ <<s, id>> \notin joined') =>
         \E c \in calls' :
           /\ c.op = "deafen" /\ c.sess = s /\ c.id = id
           /\ \A r \in listeners : (r[1] = id /\ r[2] = s) => r = CallKey(c)
    ]_vars

\* C6: a connected session is in an entity's room exactly when it has a
\* registration on the entity.
C6_JoinedIffRegistered ==
  \A s \in connected : \A id \in EntityIds :
    <<s, id>> \in joined <=> Registered(s, id)

Observable(s) ==
  LET Seen(e) == e.ev \in {"bind", "emit user.login", "push"}
      kept == SelectSeq(log[s], Seen)
  IN [i \in 1..Len(kept) |-> kept[i].ev]

\* C11: a registration that was persisted and a successful Authenticate
\* both bind the session, then emit user.login, then push the user.
C11_RegisterLikeLogin ==
  \A s \in Sessions :
    (req[s].pc = "done" /\ req[s].outcome \in {"registered", "logged in"})
      => Observable(s) = <<"bind", "emit user.login", "push">>

\* C12: when the write of the Login record fails, a logout still ends with
\* the binding cleared and false pushed, and a login that authenticated
\* still ends bound and with its success response.
C12_AuditFailureIsolated ==
  \A s \in Sessions :
    req[s].pc = "done" =>
      /\ req[s].kind = "logout" =>
           /\ sessUser[s] = NoId
           /\ Events(s, "push") # {}
      /\ (req[s].kind = "login" /\ req[s].info.kind = "ok") =>
           /\ sessUser[s] # NoId
           /\ req[s].outcome = "logged in"

\* the audit events a request has emitted so far
Emits(l) ==
  {i \in 1..Len(l) :
     l[i].ev \in {"emit user.login", "emit user.login.fail", "emit user.logout"}}

\* the audit event a step of session s emits, if it emits one
Fresh(s) ==
  IF Len(log'[s]) > Len(log[s]) /\ SubSeq(log'[s], 1, Len(log[s])) = log[s]
    THEN {i \in Emits(log'[s]) : i > Len(log[s])}
    ELSE IF log'[s] # log[s] THEN Emits(log'[s]) ELSE {}

\* C13: an authentication attempt emits one audit event, user.login.fail
\* exactly when it failed, and a logout emits one user.logout; an audit
\* event creates one Login record with its direction and fail flag; the
\* record is added once to the collection, and nothing else changes the
\* collection.
C13_AuditOnce ==
  /\ [](\A s \in Sessions :
         req[s].pc = "done" =>
           /\ req[s].kind = "login" =>
                /\ Cardinality(Emits(log[s])) = 1
                /\ (Events(s, "emit user.login.fail") # {})
                     <=> (req[s].info.kind # "ok")
           /\ req[s].kind = "logout" =>
                /\ Cardinality(Emits(log[s])) = 1
                /\ Events(s, "emit user.logout") # {})
  /\ [][/\ \A s \in Sessions :
            /\ Cardinality(Fresh(s)) <= 1
            /\ \A i \in Fresh(s) :
                 /\ ~audit[s].pending
                 /\ audit'[s].pending
                 /\ audit'[s].rec.way =
                      (IF log'[s][i].ev = "emit user.logout" THEN "logout" ELSE "login")
                 /\ audit'[s].rec.fail = (log'[s][i].ev = "emit user.login.fail")
                 /\ audit'[s].rec.user = log'[s][i].user
            /\ (audit[s].pending /\ audit'[s] # audit[s]) =>
                 /\ ~audit'[s].pending
                 /\ logins' = logins (+) SetToBag({audit[s].rec})
        /\ logins' # logins =>
             \E s \in Sessions :
               /\ audit[s].pending
               /\ logins' = logins (+) SetToBag({audit[s].rec})
     ]_vars

C13_Witness ==
  /\ \E r \in BagToSet(logins) : r.way = "login" /\ r.fail
  /\ \E r \in BagToSet(logins) : r.way = "login" /\ ~r.fail
  /\ \E r \in BagToSet(logins) : r.way = "logout" /\ ~r.fail

\* C14: after a reset has completed for a user, an Authenticate with the
\* user's email and the new password succeeds, and one with the password
\* the user had before the reset is answered InvalidCredential.
C14_ResetThenLogin ==
  \A s \in Sessions :
    (req[s].kind = "login" /\ req[s].info.kind # "none") =>
      /\ req[s].expect = "new" => req[s].info.kind = "ok"
      /\ req[s].expect = "old" => req[s].info.kind = "InvalidCredential"

C14_Witness ==
  \E s \in Sessions :
    /\ req[s].kind = "login" /\ req[s].pc = "done"
    /\ req[s].expect = "new" /\ req[s].outcome = "logged in"
    /\ \E u \in users : u.id = sessUser[s] /\ u.hash = Hmac(Secret, Pw2)

Digests(us) == {<<u.id, u.hash>> : u \in us}

\* C15: a reset whose token resolves to no user is answered "invalid
\* token"; a reset that is rejected (no user, password too short,
\* confirmation that differs) has saved nothing and changes no digest; only
\* a reset with a resolving token and a valid body reaches user.save.
C15_RejectedResetChangesNothing ==
  /\ [](\A s \in Sessions :
         req[s].kind = "reset" =>
           /\ req[s].pc = "reset_save" =>
                /\ Len(Trim(req[s].password)) >= MinLength
                /\ req[s].password = req[s].passwordb
                /\ req[s].token # <<>>
                /\ req[s].user.id # NoId
           /\ (req[s].pc = "done" /\ req[s].outcome # "password updated") =>
                Events(s, "save") = {})
  /\ [][/\ \A s \in Sessions :
            (req[s].pc = "reset_find" /\ req'[s].pc # "reset_find") =>
              /\ (\A u \in users : u.token # req[s].token) =>
                   req'[s].outcome = "invalid token"
              /\ req'[s].pc = "done" =>
                   /\ req'[s].outcome \in {"invalid token", "password too short",
                                           "passwords do not match"}
                   /\ Digests(users') = Digests(users)
        /\ ~(Digests(users) \subseteq Digests(users')) =>
             \E s \in Sessions :
               /\ req[s].pc = "reset_save"
               /\ req'[s].outcome = "password updated"
     ]_vars

C15_Witness ==
  \E s \in Sessions :
    /\ req[s].kind = "reset" /\ req[s].pc = "done"
    /\ req[s].outcome = "invalid token"
    /\ \E u \in users : u.token # <<>>

\* C16: a reset with a token that has already completed a reset is
\* rejected.
C16_TokenSingleUse ==
  \A s \in Sessions :
    (req[s].kind = "reset" /\ req[s].reuse /\ req[s].pc = "done")
      => req[s].outcome = "invalid token"

\* C17: a run of the bootstrap that begins after a run has completed
\* creates no record and changes none.
C17_BootstrapIdempotent ==
  [][\A t \in BootTasks :
       (boot[t].late /\ boot'[t] # boot[t]) =>
         /\ boot'[t].pc # "save"
         /\ acls' = acls
    ]_vars

C17_Witness ==
  \E r \in 1..MaxRuns :
    /\ Completed(r)
    /\ \A i \in 1..Len(AclList) : boot[<<r, i>>].late
    /\ {a.name : a \in acls} = {AclList[i] : i \in 1..Len(AclList)}

\* C18: a registration during which no other user is saved between its
\* count and its save attaches the default and the admin records when
\* there was no user before it, and the default records alone otherwise.
C18_FirstIsAdmin ==
  [][\A s \in Sessions :
       (req[s].pc = "reg_save" /\ req'[s].pc = "reg_login" /\ req[s].alone) =>
         /\ req'[s].user \in users'
         /\ req'[s].user.acl =
              (IF users = {} THEN AclDefault \cup AclAdmin ELSE AclDefault)
    ]_vars

C18_Witness ==
  \E u \in users, v \in users :
    /\ u.id = 1 /\ u.acl = AclDefault \cup AclAdmin
    /\ v.id = 2 /\ v.acl = AclDefault
    /\ \E s \in Sessions : req[s].outcome = "logged out"

\* C19: the token of a session is the id of its user and nothing else;
\* deserialising the token of a user that exists gives that user, and
\* the token of a removed user, held by a session or not, gives no user
C19_SessionToken ==
  /\ \A u \in users :
       /\ serializeUser(u) = IdString(u.id)
       /\ deserializeUser(serializeUser(u)) = u
  /\ \A id \in deleted : deserializeUser(IdString(id)) = NoUser
  /\ \A s \in Sessions :
       LET u == deserializeUser(IdString(sessUser[s])) IN
         IF sessUser[s] \in deleted \cup {NoId}
           THEN u = NoUser
           ELSE u \in users /\ u.id = sessUser[s]

\* a session still holds the token of a removed user, refreshAction has
\* answered null for it, and another user exists
C19_Witness ==
  \E s \in Sessions :
    /\ sessUser[s] \in deleted
    /\ out = EmptyPayload("refresh", s, "null")
    /\ users # {}

ValidationErrors ==
  {"email too short", "email taken", "password too short",
   "passwords do not match"}

\* what a register request leaves alone when it fails a validation
RegisterFrame(s) ==
  /\ users' = users
  /\ acls' = acls
  /\ logins' = logins
  /\ audit' = audit
  /\ sessUser' = sessUser
  /\ out' = out
  /\ \A i \in 1..Len(log'[s]) : log'[s][i].ev = "respond"

\* C20: a register request whose email is too short, whose email is taken
\* when User.findOne resolves, whose password is too short or whose
\* confirmation differs is answered with that validation error; no step of
\* it invokes the user.register hook, writes a user, an acl or a Login
\* record, emits user.login, pushes to the session or changes the binding
C20_ValidationFailureNoEffect ==
  [][\A s \in Sessions :
       /\ (/\ Ready(s)
           /\ req'[s] # req[s]
           /\ req'[s].kind = "register"
           /\ req'[s].pc = "done")
          => /\ req'[s].outcome = "email too short"
             /\ RegisterFrame(s)
       /\ (/\ Ready(s)
           /\ req'[s].kind = "register"
           /\ req'[s].pc = "reg_find")
          => /\ Len(Trim(req'[s].email)) >= MinLength
             /\ RegisterFrame(s)
       /\ (/\ req[s].pc = "reg_find"
           /\ req'[s] # req[s]
           /\ \/ EmailMatches(users, req[s].email) # {}
              \/ Len(Trim(req[s].password)) < MinLength
              \/ req[s].password # req[s].passwordb)
          => /\ req'[s].pc = "done"
             /\ req'[s].outcome \in ValidationErrors \ {"email too short"}
             /\ req'[s].user = NoUser
             /\ RegisterFrame(s)
    ]_vars

\* while a user exists, one register request has been answered with the
\* differing confirmation on a session that stays unbound, and one with the
\* taken email
C20_Witness ==
  /\ users # {}
  /\ \E s \in Sessions :
       /\ req[s].kind = "register" /\ req[s].pc = "done"
       /\ req[s].outcome = "passwords do not match"
       /\ sessUser[s] = NoId
  /\ \E s \in Sessions :
       /\ req[s].kind = "register" /\ req[s].pc = "done"
       /\ req[s].outcome = "email taken"

\* C21: the acl collection holds at most one record of a name
C21_OneRecordPerName ==
  \A a \in acls : \A b \in acls : a.name = b.name => a = b

\* C22: no two users of the collection have the same email, compared
\* without regard to case
C22_EmailUnique ==
  \A u \in users : \A v \in users :
    Lower(u.email) = Lower(v.email) => u = v

\* C23: at most one user of the collection holds the admin records
C23_OneAdmin ==
  Cardinality({u \in users : AclAdmin \subseteq u.acl}) <= 1

\* C24: after the page has processed a pushed false or a refresh result of
\* null, its data is empty, exists() is false, and the processing threw
\* nothing
C24_ClientFollowsSession ==
  client.last \in {"false", "null"} =>
    /\ client.data = NoData
    /\ ~exists(client)
    /\ ~client.error

====
